---- MODULE Spec2Model ----
(***************************************************************************)
(* Credential issuance between an issuer and a prover (src/sovrin/issue.py) *)
(* preceded by pool / steward setup (src/sovrin/setup.py) and schema /      *)
(* credential-definition registration (src/anvil/sovrin/schema.py), and     *)
(* followed by the proof section of run (src/sovrin/claims.py); the demo    *)
(* runner and the prover web app of src/anvil.  Each actor is a Python      *)
(* dict; a dict is modelled as a function whose DOMAIN is the set of keys   *)
(* present, so that a read of a missing key is a KeyError.  A Python string *)
(* used as a key is a sequence of tokens, so that keys built by             *)
(* concatenation (unique_schema_name + '_cred_offer') are built by \o here. *)
(***************************************************************************)
EXTENDS Naturals, Sequences, FiniteSets, TLC

VARIABLES issuer, prover, ledger, issuer_wallet, prover_wallet, fresh, done, pc,
          run_pc, ran, web_prover, received_data, anchor_ip, inbox_calls, inbox_bodies,
          unanswered, anchor_channel,
          machine, pool_res, steward_res,
          verifier, proof_pc, proof_requests

\* the issuance functions' state (sovrin/issue.py), and which negotiation is where
issue_vars == <<issuer, prover, ledger, issuer_wallet, prover_wallet, fresh, done, pc>>

\* the demo runner's position (anvil/sovrin/claims.py) and the prover web app's
\* module globals (anvil/prover.py)
anvil_vars == <<run_pc, ran, web_prover, received_data, anchor_ip, inbox_calls, inbox_bodies,
               unanswered, anchor_channel>>

\* what exists on the machine (pool configs, wallets, what is open) and what
\* setup_pool and setup_steward last returned (sovrin/setup.py)
setup_vars == <<machine, pool_res, steward_res>>

\* the verifier's dict, where run is in its proof section, and the proof
\* requests the verifier has built (sovrin/claims.py run)
proof_vars == <<verifier, proof_pc, proof_requests>>

\* the variables the issuance, registration and web app steps leave alone
other_vars == <<setup_vars, proof_vars>>

vars == <<issue_vars, anvil_vars, other_vars>>

(* ---------------- bounds ---------------- *)
\* offers the issuer may build (each carries a fresh nonce)
MaxOffers == 2
\* credential requests the prover may build (each carries a fresh nonce)
MaxRequests == 1
\* master secrets the prover wallet may hold
MaxSecrets == 2
\* /credential_inbox requests whose receive_credential_offer has not returned yet
MaxInboxCalls == 2
\* proof requests the verifier may build for the prover
MaxProofRequests == 3

(* ---------------- inputs ---------------- *)
\* schema['name'] of the schemas the issuer registers
SchemaNames == {<<"a">>, <<"b">>}
\* the attribute names of the credential values run passes to request_credential
CredAttrs == {"first_name", "last_name", "degree", "status", "ssn", "year", "average"}

\* the `values` argument of request_credential: the one set of values the
\* runner passes (sovrin/claims.py run); raw: the raw value of its degree
\* attribute, attrs: its attribute names
Values == {[kind |-> "cred_values", raw |-> "Bachelor of Science, Marketing", attrs |-> CredAttrs]}

(* ---------------- Python dicts and strings ---------------- *)
Has(d, k) == k \in DOMAIN d

Put(d, k, v) == [x \in (DOMAIN d) \cup {k} |-> IF x = k THEN v ELSE d[x]]

\* a key of fixed name, e.g. issuer['wallet']
F(name) == <<name>>

\* a key named by concatenation, e.g. prover[unique_schema_name + '_cred_offer']
K(usn, suffix) == usn \o <<suffix>>

\* str.replace on one character
replace(c, old, new) == IF c = old THEN new ELSE c

\* str.lower on one character
lower(c) ==
  CASE c = "A" -> "a"
    [] c = "B" -> "b"
    [] OTHER -> c

\* schema['name'].replace(' ', '_').replace('-', '_').lower()
unique_schema_name(name) ==
  [i \in 1..Len(name) |-> lower(replace(replace(name[i], " ", "_"), "-", "_"))]

Schemas == {unique_schema_name(n) : n \in SchemaNames}

(* ---------------- identities fixed by onboarding ---------------- *)
ISSUER_DID == [kind |-> "did", owner |-> "issuer"]
ISSUER_KEY_FOR_PROVER == [kind |-> "verkey", owner |-> "issuer"]
PROVER_DID_FOR_ISSUER == [kind |-> "did", owner |-> "prover"]
PROVER_KEY_FOR_ISSUER == [kind |-> "verkey", owner |-> "prover"]

\* did.key_for_did: the verkey the ledger / wallet holds for a DID
key_for_did(d) == [kind |-> "verkey", owner |-> d.owner]

(* ---------------- artifacts of the crypto engine and the ledger ---------------- *)
SchemaId(name) == [kind |-> "schema_id", did |-> ISSUER_DID, name |-> name]

SchemaArtifact(name) == [kind |-> "schema", id |-> SchemaId(name)]

CredDefId(schema_id) == [kind |-> "cred_def_id", did |-> ISSUER_DID, schema_id |-> schema_id, tag |-> "TAG1"]

CredDef(schema_id) == [kind |-> "cred_def", id |-> CredDefId(schema_id)]

\* anoncreds.issuer_create_credential_offer: an offer bound to a credential
\* definition, carrying a fresh nonce
CredOffer(cred_def_id, nonce) ==
  [kind |-> "cred_offer", schema_id |-> cred_def_id.schema_id, cred_def_id |-> cred_def_id, nonce |-> nonce]

\* crypto.auth_crypt(wallet, sender_vk, recipient_vk, msg)
auth_crypt(sender_vk, recipient_vk, msg) ==
  [kind |-> "envelope", sender |-> sender_vk, recipient |-> recipient_vk, body |-> msg]

\* crypto.auth_decrypt(wallet, my_vk, envelope) succeeds when the envelope
\* was encrypted to my_vk
CanDecrypt(my_vk, env) == env.kind = "envelope" /\ env.recipient = my_vk

(* ---------------- the state the calls act on ---------------- *)
\* st: [issuer, prover: the two dicts; issuer_wallet: the credential definitions
\* (with their private keys) in the issuer's wallet; prover_wallet: the master
\* secrets and credentials in the prover's wallet; ledger: the identifiers
\* published; fresh: how many offer / request nonces the engine has drawn]
SetI(st, k, v) == [st EXCEPT !.issuer = Put(@, k, v)]

SetP(st, k, v) == [st EXCEPT !.prover = Put(@, k, v)]

\* the state a call leaves behind, and the exception it raised ("none": it returned)
Result(st, err) == [st |-> st, err |-> err]

(* ---------------- schema.py ---------------- *)
\* a transaction the ledger has accepted and that reads do not return yet
Pending(id) == [kind |-> "pending", txn |-> id]

\* ledger.sign_and_submit_request: a new transaction is accepted and becomes
\* visible to reads later; one the ledger already holds is refused in the
\* reply, which the callers do not look at
sign_and_submit_request(l, id) == IF id \in l \/ Pending(id) \in l THEN l ELSE l \cup {Pending(id)}

\* send_schema(pool_handle, wallet_handle, _did, schema)
send_schema(l, schema) == sign_and_submit_request(l, schema.id)

\* send_cred_def(pool_handle, wallet_handle, _did, cred_def_json)
send_cred_def(l, cred_def) == sign_and_submit_request(l, cred_def.id)

\* get_schema(pool_handle, _did, schema_id) returns the schema when reads see it
get_schema_found(l, schema_id) == schema_id \in l

\* the ledger once the transaction of id has reached the nodes that are read
propagate(l, id) == IF Pending(id) \in l THEN (l \ {Pending(id)}) \cup {id} ELSE l

\* the ledger once every accepted transaction has
propagate_all(l) == {x \in l : x.kind # "pending"} \cup {x.txn : x \in {y \in l : y.kind = "pending"}}

\* create_schema(schema, creator), the creator being the issuer
create_schema(st, name) ==
  LET usn == unique_schema_name(name)
      s1 == SetI(SetI(st, F("schema_id"), SchemaId(name)), K(usn, "_schema"), SchemaArtifact(name))
  IN  Result([s1 EXCEPT !.ledger = send_schema(@, SchemaArtifact(name))], "none")

\* create_credential_definition(creator, schema_id, unique_schema_name)
create_credential_definition(st, schema_id, usn) ==
  IF ~get_schema_found(st.ledger, schema_id)
  THEN Result(st, "IndyError")
  ELSE
    LET s1 == SetI(SetI(st, F("schema_id"), schema_id), K(usn, "_schema"), [kind |-> "schema", id |-> schema_id])
        cd == CredDefId(schema_id)
    IN  IF cd \in s1.issuer_wallet
        THEN Result(s1, "IndyError")
        ELSE
          LET s2 == SetI(SetI(s1, K(usn, "_cred_def_id"), cd), K(usn, "_cred_def"), CredDef(schema_id))
          IN  Result([s2 EXCEPT !.issuer_wallet = @ \cup {cd}, !.ledger = send_cred_def(@, CredDef(schema_id))], "none")

(* ---------------- issue.py ---------------- *)
\* offer_credential(issuer, prover, unique_schema_name)
offer_credential(st, usn) ==
  IF ~(Has(st.issuer, F("wallet")) /\ Has(st.issuer, K(usn, "_cred_def_id")))
  THEN Result(st, "KeyError")
  ELSE IF st.issuer[K(usn, "_cred_def_id")] \notin st.issuer_wallet
  THEN Result(st, "IndyError")
  ELSE
    LET offer == CredOffer(st.issuer[K(usn, "_cred_def_id")], st.fresh.offers + 1)
        s1 == [SetI(st, K(usn, "_cred_offer"), offer) EXCEPT !.fresh.offers = @ + 1]
    IN  IF ~(Has(s1.issuer, F("pool")) /\ Has(s1.issuer, F("prover_connection_response")))
        THEN Result(s1, "KeyError")
        ELSE
          LET prover_key == key_for_did(s1.issuer[F("prover_connection_response")].did)
              s2 == SetI(s1, F("prover_key_for_issuer"), prover_key)
          IN  IF ~Has(s2.issuer, F("key_for_prover"))
              THEN Result(s2, "KeyError")
              ELSE
                LET env == auth_crypt(s2.issuer[F("key_for_prover")], prover_key, offer)
                IN  Result(SetP(SetI(s2, F("authcrypted_certificate_cred_offer"), env),
                                F("authcrypted_certificate_cred_offer"), env), "none")

\* anoncreds.prover_create_master_secret(wallet, None): with no id given the
\* engine generates a new id and a new secret on every call
new_master_secret_id(pw) == [kind |-> "master_secret_id", n |-> Cardinality(pw.secrets) + 1]

\* the master secret receive_credential_offer leaves in prover['master_secret_id']
master_secret_for_offer(st) == new_master_secret_id(st.prover_wallet)

\* get_cred_def(pool, did, cred_def_id): found when the ledger holds it
on_ledger(l, cred_def_id) == cred_def_id \in l

\* (mutant) a schema id already recorded for the schema is kept
offer_schema_id_kept(p, usn, msg) ==
  IF Has(p, K(usn, "_schema_id")) THEN p[K(usn, "_schema_id")] ELSE msg.schema_id

\* the schema id receive_credential_offer records for the schema
offer_schema_id(p, usn, msg) == msg.schema_id

\* receive_credential_offer(prover, unique_schema_name)
receive_credential_offer(st, usn) ==
  IF ~(Has(st.prover, F("wallet")) /\ Has(st.prover, F("key_for_issuer"))
       /\ Has(st.prover, F("authcrypted_certificate_cred_offer")))
  THEN Result(st, "KeyError")
  ELSE IF ~CanDecrypt(st.prover[F("key_for_issuer")], st.prover[F("authcrypted_certificate_cred_offer")])
  THEN Result(st, "IndyError")
  ELSE
    LET env == st.prover[F("authcrypted_certificate_cred_offer")]
        authdecrypted_certificate_cred_offer == env.body
        s1 == SetP(SetP(st, F("issuer_key_for_prover"), env.sender), K(usn, "_cred_offer"), env.body)
    IN  IF authdecrypted_certificate_cred_offer.kind # "cred_offer"
        THEN Result(s1, "KeyError")
        ELSE
          LET cd == authdecrypted_certificate_cred_offer.cred_def_id
              ms == master_secret_for_offer(st)
              s2 == SetP(SetP(s1, K(usn, "_schema_id"), offer_schema_id(st.prover, usn, authdecrypted_certificate_cred_offer)),
                         K(usn, "_cred_def_id"), cd)
              s3 == [SetP(s2, F("master_secret_id"), ms) EXCEPT !.prover_wallet.secrets = @ \cup {ms}]
          IN  IF ~(Has(s3.prover, F("pool")) /\ Has(s3.prover, F("did_for_issuer")))
              THEN Result(s3, "KeyError")
              ELSE IF ~on_ledger(s3.ledger, cd)
              THEN Result(s3, "IndyError")
              ELSE Result(SetP(SetP(s3, F("issuer_certificate_cred_def_id"), cd),
                               F("issuer_certificate_cred_def"), CredDef(cd.schema_id)), "none")

\* anoncreds.prover_create_credential_req(wallet, did, offer, cred_def, master_secret_id):
\* the offer's key correctness proof is verified against the definition's key,
\* and the master secret must be in the wallet
can_create_credential_req(pw, offer, cred_def, master_secret_id) ==
  /\ offer.kind = "cred_offer"
  /\ cred_def.kind = "cred_def"
  /\ cred_def.id = offer.cred_def_id
  /\ master_secret_id \in pw.secrets

\* the request: the blinded master secret with a correctness proof over the offer's nonce
CredRequest(prover_did, offer, master_secret_id, nonce) ==
  [kind |-> "cred_request", prover_did |-> prover_did, cred_def_id |-> offer.cred_def_id,
   offer_nonce |-> offer.nonce, blinded_ms |-> master_secret_id, nonce |-> nonce]

\* the request metadata: the blinding data the prover needs to finalize the credential
CredRequestMetadata(master_secret_id, nonce) ==
  [kind |-> "cred_request_metadata", master_secret_name |-> master_secret_id, nonce |-> nonce]

\* (mutant) the request metadata is encrypted for the issuer in place of the request
request_payload_metadata(p, usn) == p[K(usn, "_cred_request_metadata")]

\* the plaintext request_credential encrypts for the issuer
request_payload(p, usn) == p[K(usn, "_cred_request")]

\* request_credential(prover, issuer, values, unique_schema_name)
request_credential(st, values, usn) ==
  LET s1 == SetP(st, K(usn, "_cred_values"), values)
      p1 == s1.prover
  IN  IF ~(Has(p1, F("wallet")) /\ Has(p1, F("did_for_issuer")) /\ Has(p1, K(usn, "_cred_offer"))
           /\ Has(p1, F("issuer_certificate_cred_def")) /\ Has(p1, F("master_secret_id")))
      THEN Result(s1, "KeyError")
      ELSE IF ~can_create_credential_req(s1.prover_wallet, p1[K(usn, "_cred_offer")],
                                         p1[F("issuer_certificate_cred_def")], p1[F("master_secret_id")])
      THEN Result(s1, "IndyError")
      ELSE
        LET nonce == s1.fresh.requests + 1
            req == CredRequest(p1[F("did_for_issuer")], p1[K(usn, "_cred_offer")], p1[F("master_secret_id")], nonce)
            meta == CredRequestMetadata(p1[F("master_secret_id")], nonce)
            s2 == [SetP(SetP(s1, K(usn, "_cred_request"), req), K(usn, "_cred_request_metadata"), meta)
                     EXCEPT !.fresh.requests = @ + 1]
        IN  IF ~(Has(s2.prover, F("key_for_issuer")) /\ Has(s2.prover, F("issuer_key_for_prover")))
            THEN Result(s2, "KeyError")
            ELSE
              LET env == auth_crypt(s2.prover[F("key_for_issuer")], s2.prover[F("issuer_key_for_prover")],
                                    request_payload(s2.prover, usn))
              IN  Result(SetI(SetP(s2, F("authcrypted_certificate_cred_request"), env),
                              F("authcrypted_certificate_cred_request"), env), "none")

\* anoncreds.issuer_create_credential(wallet, offer, request, values, None, None):
\* the definition's private key must be in the wallet and the request's
\* correctness proof must verify against the offer's nonce
can_create_credential(iw, offer, request) ==
  /\ offer.kind = "cred_offer"
  /\ request.kind = "cred_request"
  /\ offer.cred_def_id \in iw
  /\ request.cred_def_id = offer.cred_def_id
  /\ request.offer_nonce = offer.nonce

\* the signed credential: the signature covers the values and the blinded
\* master secret of the request
Credential(offer, request, values) ==
  [kind |-> "credential", schema_id |-> offer.schema_id, cred_def_id |-> offer.cred_def_id,
   values |-> values, request_nonce |-> request.nonce, master_secret |-> request.blinded_ms]

\* create_and_send_credential(issuer, prover, unique_schema_name)
create_and_send_credential(st, usn) ==
  IF ~Has(st.prover, K(usn, "_cred_values"))
  THEN Result(st, "KeyError")
  ELSE
    LET s1 == SetI(st, F("prover_certificate_cred_values"), st.prover[K(usn, "_cred_values")])
    IN  IF ~(Has(s1.issuer, F("wallet")) /\ Has(s1.issuer, F("key_for_prover"))
             /\ Has(s1.issuer, F("authcrypted_certificate_cred_request")))
        THEN Result(s1, "KeyError")
        ELSE IF ~CanDecrypt(s1.issuer[F("key_for_prover")], s1.issuer[F("authcrypted_certificate_cred_request")])
        THEN Result(s1, "IndyError")
        ELSE
          LET env == s1.issuer[F("authcrypted_certificate_cred_request")]
              s2 == SetI(SetI(s1, F("prover_key_for_issuer"), env.sender), K(usn, "_cred_request"), env.body)
          IN  IF ~Has(s2.issuer, K(usn, "_cred_offer"))
              THEN Result(s2, "KeyError")
              ELSE IF ~can_create_credential(s2.issuer_wallet, s2.issuer[K(usn, "_cred_offer")], env.body)
              THEN Result(s2, "IndyError")
              ELSE
                LET cred == Credential(s2.issuer[K(usn, "_cred_offer")], env.body,
                                       s2.issuer[F("prover_certificate_cred_values")])
                    out == auth_crypt(s2.issuer[F("key_for_prover")], s2.issuer[F("prover_key_for_issuer")], cred)
                IN  Result(SetP(SetI(SetI(s2, K(usn, "_cred"), cred), F("authcrypted_certificate_cred"), out),
                                F("authcrypted_certificate_cred"), out), "none")

\* anoncreds.prover_store_credential(wallet, None, metadata, cred, cred_def, None):
\* the credential's signature is processed with the request's blinding data and
\* verified against the definition's key
can_store_credential(pw, metadata, cred, cred_def) ==
  /\ metadata.kind = "cred_request_metadata"
  /\ cred.kind = "credential"
  /\ cred_def.kind = "cred_def"
  /\ cred.cred_def_id = cred_def.id
  /\ cred.request_nonce = metadata.nonce
  /\ metadata.master_secret_name \in pw.secrets

\* store_credential(prover, unique_schema_name)
store_credential(st, usn) ==
  IF ~(Has(st.prover, F("wallet")) /\ Has(st.prover, F("key_for_issuer"))
       /\ Has(st.prover, F("authcrypted_certificate_cred")))
  THEN Result(st, "KeyError")
  ELSE IF ~CanDecrypt(st.prover[F("key_for_issuer")], st.prover[F("authcrypted_certificate_cred")])
  THEN Result(st, "IndyError")
  ELSE
    LET cred == st.prover[F("authcrypted_certificate_cred")].body
        s1 == SetP(st, K(usn, "_cred"), cred)
    IN  IF ~(Has(s1.prover, F("pool")) /\ Has(s1.prover, F("did_for_issuer")) /\ Has(s1.prover, K(usn, "_cred_def_id")))
        THEN Result(s1, "KeyError")
        ELSE IF ~on_ledger(s1.ledger, s1.prover[K(usn, "_cred_def_id")])
        THEN Result(s1, "IndyError")
        ELSE
          LET cred_def == CredDef(s1.prover[K(usn, "_cred_def_id")].schema_id)
              s2 == SetP(s1, K(usn, "_cred_def"), cred_def)
          IN  IF ~Has(s2.prover, K(usn, "_cred_request_metadata"))
              THEN Result(s2, "KeyError")
              ELSE IF ~can_store_credential(s2.prover_wallet, s2.prover[K(usn, "_cred_request_metadata")], cred, cred_def)
              THEN Result(s2, "IndyError")
              ELSE Result([s2 EXCEPT !.prover_wallet.credentials = @ \cup {cred}], "none")

(* ---------------- setup.py ---------------- *)
\* e: [pool_configs, wallets: the pool ledger configs and wallets that exist on
\* the machine; open_pools, open_wallets: those this process holds a handle
\* to; dids: the (wallet, seed) pairs a DID was stored for]
\* fault: the failure the environment makes a create call meet ("none": none)
Faults == {"none", "CommonIOError"}

\* pool.create_pool_ledger_config(name, config)
create_pool_ledger_config(e, name, fault) ==
  IF fault # "none" THEN [env |-> e, err |-> fault]
  ELSE IF name \in e.pool_configs THEN [env |-> e, err |-> "PoolLedgerConfigAlreadyExistsError"]
  ELSE [env |-> [e EXCEPT !.pool_configs = @ \cup {name}], err |-> "none"]

\* pool.open_pool_ledger(name, None)
open_pool_ledger(e, name) ==
  IF name \notin e.pool_configs THEN [env |-> e, err |-> "PoolLedgerNotCreatedError"]
  ELSE IF name \in e.open_pools THEN [env |-> e, err |-> "PoolLedgerInvalidPoolHandle"]
  ELSE [env |-> [e EXCEPT !.open_pools = @ \cup {name}], err |-> "none"]

\* wallet.create_wallet(config, credentials)
create_wallet(e, id_, fault) ==
  IF fault # "none" THEN [env |-> e, err |-> fault]
  ELSE IF id_ \in e.wallets THEN [env |-> e, err |-> "WalletAlreadyExistsError"]
  ELSE [env |-> [e EXCEPT !.wallets = @ \cup {id_}], err |-> "none"]

\* wallet.open_wallet(config, credentials)
open_wallet(e, id_) ==
  IF id_ \notin e.wallets THEN [env |-> e, err |-> "WalletNotFoundError"]
  ELSE IF id_ \in e.open_wallets THEN [env |-> e, err |-> "WalletAlreadyOpenedError"]
  ELSE [env |-> [e EXCEPT !.open_wallets = @ \cup {id_}], err |-> "none"]

\* did.create_and_store_my_did(wallet, {'seed': seed}): the DID and key derived
\* from the seed, stored in the wallet (again, when it is there already)
create_and_store_my_did(e, id_, seed) == [e EXCEPT !.dids = @ \cup {<<id_, seed>>}]

\* (no except clause) every error of the create call is raised to the caller
caught_nothing(err) == FALSE

\* except IndyError as ex: if ex.error_code == ...AlreadyExistsError: pass
\* the error of the create call is caught, and nothing is raised whatever its code
caught(err) == err # "none"

\* what a setup function hands back: the record it returned (empty when it
\* raised), the exception that ended it, the error its create call met
SetupResult(e, rec, err, create_err) == [env |-> e, rec |-> rec, err |-> err, create_err |-> create_err]

\* setup_pool(name)
setup_pool(e, name, fault) ==
  LET c == create_pool_ledger_config(e, name, fault)
  IN  IF c.err # "none" /\ ~caught(c.err)
      THEN SetupResult(c.env, << >>, c.err, c.err)
      ELSE
        LET o == open_pool_ledger(c.env, name)
            pool_ == [k \in {F("name"), F("genesis_txn_path"), F("config"), F("handle")} |->
                        CASE k = F("name") -> [kind |-> "name", value |-> name]
                          [] k = F("genesis_txn_path") -> [kind |-> "path", pool |-> name]
                          [] k = F("config") -> [kind |-> "pool_config", pool |-> name]
                          [] OTHER -> [kind |-> "pool_handle", pool |-> name]]
        IN  IF o.err # "none"
            THEN SetupResult(o.env, << >>, o.err, c.err)
            ELSE SetupResult(o.env, pool_, "none", c.err)

\* setup_steward(pool_, name, id_, key, seed)
setup_steward(e, pool_, id_, seed, fault) ==
  IF ~Has(pool_, F("handle"))
  THEN SetupResult(e, << >>, "KeyError", "none")
  ELSE
    LET c == create_wallet(e, id_, fault)
    IN  IF c.err # "none" /\ ~caught(c.err)
        THEN SetupResult(c.env, << >>, c.err, c.err)
        ELSE
          LET o == open_wallet(c.env, id_)
              steward == [k \in {F("name"), F("wallet_config"), F("wallet_credentials"), F("pool"), F("seed"),
                                 F("wallet"), F("did_info"), F("did"), F("key")} |->
                            CASE k = F("name") -> [kind |-> "name", value |-> "Steward"]
                              [] k = F("wallet_config") -> [kind |-> "wallet_config", id |-> id_]
                              [] k = F("wallet_credentials") -> [kind |-> "wallet_credentials"]
                              [] k = F("pool") -> pool_[F("handle")]
                              [] k = F("seed") -> [kind |-> "seed", value |-> seed]
                              [] k = F("wallet") -> [kind |-> "wallet_handle", owner |-> id_]
                              [] k = F("did_info") -> [kind |-> "did_info", seed |-> seed]
                              [] k = F("did") -> [kind |-> "did", owner |-> seed]
                              [] OTHER -> [kind |-> "verkey", owner |-> seed]]
          IN  IF o.err # "none"
              THEN SetupResult(o.env, << >>, o.err, c.err)
              ELSE SetupResult(create_and_store_my_did(o.env, id_, seed), steward, "none", c.err)

\* a setup function that has not been called
NotCalled == [rec |-> << >>, err |-> "not called", create_err |-> "none"]

\* a machine with no pool config and no wallet, setup not run
SetupIdle ==
  /\ machine = [pool_configs |-> {}, open_pools |-> {}, wallets |-> {}, open_wallets |-> {}, dids |-> {}]
  /\ pool_res = NotCalled
  /\ steward_res = NotCalled

\* run not yet in its proof section, no verifier
ProofIdle ==
  /\ verifier = << >>
  /\ proof_pc = "idle"
  /\ proof_requests = << >>

(* ---------------- claims.py: the proof section of run ---------------- *)
VERIFIER_KEY_FOR_PROVER == [kind |-> "verkey", owner |-> "verifier"]

PROVER_DID_FOR_VERIFIER == [kind |-> "did", owner |-> "prover_for_verifier"]

PROVER_KEY_FOR_VERIFIER == [kind |-> "verkey", owner |-> "prover_for_verifier"]

\* 'nonce': '1432422343242122312411212'
PROOF_NONCE == "1432422343242122312411212"

AttrReferents ==
  {"attr1_referent", "attr2_referent", "attr3_referent", "attr4_referent", "attr5_referent", "attr6_referent"}

PredReferents == {"predicate1_referent"}

\* the proof request run builds, restricted to the credential definition cred_def_id
ProofRequest(cred_def_id) ==
  [kind |-> "proof_request", nonce |-> PROOF_NONCE, name |-> "Job-Application", version |-> "0.1",
   requested_attributes |->
     [r \in AttrReferents |->
        CASE r = "attr1_referent" -> [name |-> "first_name", restrictions |-> {}]
          [] r = "attr2_referent" -> [name |-> "last_name", restrictions |-> {}]
          [] r = "attr3_referent" -> [name |-> "degree", restrictions |-> {cred_def_id}]
          [] r = "attr4_referent" -> [name |-> "status", restrictions |-> {cred_def_id}]
          [] r = "attr5_referent" -> [name |-> "ssn", restrictions |-> {cred_def_id}]
          [] OTHER -> [name |-> "phone_number", restrictions |-> {}]],
   requested_predicates |->
     [r \in PredReferents |-> [name |-> "average", p_type |-> ">=", p_value |-> 4, restrictions |-> {cred_def_id}]]]

\* the referents of a proof request, and what the request asks for under one
Referents(req) == DOMAIN req.requested_attributes \cup DOMAIN req.requested_predicates

ReferentItem(req, referent) ==
  IF referent \in DOMAIN req.requested_attributes
  THEN req.requested_attributes[referent]
  ELSE req.requested_predicates[referent]

SetV(st, k, v) == [st EXCEPT !.verifier = Put(@, k, v)]

\* run, from the proof request to its delivery to the prover; usn is run's
\* unique_schema_name
request_proof(st, usn) ==
  IF ~Has(st.issuer, K(usn, "_cred_def_id"))
  THEN Result(st, "KeyError")
  ELSE
    LET s1 == SetV(st, F("job_application_proof_request"), ProofRequest(st.issuer[K(usn, "_cred_def_id")]))
    IN  IF ~(Has(s1.verifier, F("pool")) /\ Has(s1.verifier, F("wallet")) /\ Has(s1.verifier, F("prover_connection_response")))
        THEN Result(s1, "KeyError")
        ELSE
          LET s2 == SetV(s1, F("prover_key_for_verifier"), key_for_did(s1.verifier[F("prover_connection_response")].did))
          IN  IF ~Has(s2.verifier, F("key_for_prover"))
              THEN Result(s2, "KeyError")
              ELSE
                LET out == auth_crypt(s2.verifier[F("key_for_prover")], s2.verifier[F("prover_key_for_verifier")],
                                      s2.verifier[F("job_application_proof_request")])
                IN  Result(SetP(SetV(s2, F("authcrypted_job_application_proof_request"), out),
                                F("authcrypted_job_application_proof_request"), out), "none")

\* the referents run fetches a credential for, in the order it does
Searched ==
  <<"attr1_referent", "attr2_referent", "attr3_referent", "attr4_referent", "attr5_referent", "predicate1_referent">>

\* (mutant) the search does not apply the restrictions
fetch_any_credentials_for_proof_req(pw, req, referent) ==
  {c \in pw.credentials : ReferentItem(req, referent).name \in c.values.attrs}

\* anoncreds.prover_fetch_credentials_for_proof_req(search, referent, 10): the
\* credentials of the wallet that have the attribute asked for and satisfy the
\* referent's restrictions
fetch_credentials_for_proof_req(pw, req, referent) ==
  {c \in pw.credentials :
     /\ ReferentItem(req, referent).name \in c.values.attrs
     /\ \/ ReferentItem(req, referent).restrictions = {}
        \/ c.cred_def_id \in ReferentItem(req, referent).restrictions}

\* the id the wallet keeps a credential under
CredId(c) == [kind |-> "cred_id", request_nonce |-> c.request_nonce, cred_def_id |-> c.cred_def_id]

\* credentials[i]['cred_info']
CredInfo(c) ==
  [kind |-> "cred_info", referent |-> CredId(c), schema_id |-> c.schema_id, cred_def_id |-> c.cred_def_id,
   values |-> c.values]

\* no credential fetched for a referent
NONE == [kind |-> "none"]

\* which credential each fetch returns first: any of those fetched
Firsts(pw, req) ==
  {first \in [{Searched[i] : i \in 1..Len(Searched)} -> pw.credentials \cup {NONE}] :
     \A i \in 1..Len(Searched) :
       IF fetch_credentials_for_proof_req(pw, req, Searched[i]) = {}
       THEN first[Searched[i]] = NONE
       ELSE first[Searched[i]] \in fetch_credentials_for_proof_req(pw, req, Searched[i])}

\* (mutant) credentials[0] of an empty list does not raise
no_credential_ignored(st) == Result(st, "none")

\* get_credential_for_referent when nothing was fetched: credentials[0] raises
no_credential(st) == Result(st, "IndexError")

\* (mutant) attr6_referent is left out
requested_creds_without_attr6(first) ==
  [kind |-> "requested_creds",
   self_attested_attributes |->
     [r \in {"attr1_referent", "attr2_referent"} |->
        CASE r = "attr1_referent" -> "Prover" [] OTHER -> "SecondName"],
   requested_attributes |->
     [r \in {"attr3_referent", "attr4_referent", "attr5_referent"} |->
        [cred_id |-> CredInfo(first[r]).referent, revealed |-> TRUE]],
   requested_predicates |->
     [r \in {"predicate1_referent"} |-> [cred_id |-> CredInfo(first[r]).referent]]]

\* prover['job_application_requested_creds']
requested_creds(first) ==
  [kind |-> "requested_creds",
   self_attested_attributes |->
     [r \in {"attr1_referent", "attr2_referent", "attr6_referent"} |->
        CASE r = "attr1_referent" -> "Prover" [] r = "attr2_referent" -> "SecondName" [] OTHER -> "123-45-6789"],
   requested_attributes |->
     [r \in {"attr3_referent", "attr4_referent", "attr5_referent"} |->
        [cred_id |-> CredInfo(first[r]).referent, revealed |-> TRUE]],
   requested_predicates |->
     [r \in {"predicate1_referent"} |-> [cred_id |-> CredInfo(first[r]).referent]]]

\* the credential the wallet keeps under an id
WalletCredential(pw, cred_id) == CHOOSE c \in pw.credentials : CredId(c) = cred_id

\* anoncreds.prover_create_proof: a proof over the request's nonce with the
\* self-attested values, the revealed attributes and the predicates of the
\* requested-credentials structure; each sub-proof is made with the master
\* secret given, over a credential signed for the master secret of its request
Proof(pw, req, creds, rc, master_secret_id) ==
  [kind |-> "proof", nonce |-> req.nonce, master_secret_id |-> master_secret_id,
   requested_proof |->
     [self_attested_attrs |-> rc.self_attested_attributes,
      revealed_attrs |->
        [r \in DOMAIN rc.requested_attributes |->
           [attr |-> ReferentItem(req, r).name, values |-> creds[rc.requested_attributes[r].cred_id].values,
            cred_def_id |-> creds[rc.requested_attributes[r].cred_id].cred_def_id,
            link_secret |-> WalletCredential(pw, rc.requested_attributes[r].cred_id).master_secret]],
      predicates |->
        [r \in DOMAIN rc.requested_predicates |->
           [cred_def_id |-> creds[rc.requested_predicates[r].cred_id].cred_def_id,
            link_secret |-> WalletCredential(pw, rc.requested_predicates[r].cred_id).master_secret]]],
   identifiers |-> {[schema_id |-> creds[id].schema_id, cred_def_id |-> creds[id].cred_def_id] : id \in DOMAIN creds}]

\* run, from the prover's decryption of the request to the delivery of the
\* proof to the verifier; first: which credential each fetch returns first
create_proof(st, first) ==
  IF ~(Has(st.prover, F("wallet")) /\ Has(st.prover, F("key_for_verifier"))
       /\ Has(st.prover, F("authcrypted_job_application_proof_request")))
  THEN Result(st, "KeyError")
  ELSE IF ~CanDecrypt(st.prover[F("key_for_verifier")], st.prover[F("authcrypted_job_application_proof_request")])
  THEN Result(st, "IndyError")
  ELSE
    LET msg == st.prover[F("authcrypted_job_application_proof_request")]
        req == msg.body
        s1 == SetP(SetP(st, F("verifier_key_for_prover"), msg.sender), F("job_application_proof_request"), req)
    IN  IF \E i \in 1..Len(Searched) : first[Searched[i]] = NONE
        THEN no_credential(s1)
        ELSE
          LET ids == {CredId(first[Searched[i]]) : i \in 1..Len(Searched)}
              creds == [id \in ids |-> CredInfo(WalletCredential(s1.prover_wallet, id))]
              s2 == SetP(s1, F("creds_for_job_application_proof"), [kind |-> "creds", map |-> creds])
          IN  IF ~(Has(s2.prover, F("pool")) /\ Has(s2.prover, F("did_for_verifier")) /\ Has(s2.prover, F("name")))
              THEN Result(s2, "KeyError")
              ELSE IF \E id \in ids : creds[id].schema_id \notin s2.ledger \/ creds[id].cred_def_id \notin s2.ledger
              THEN Result(s2, "IndyError")
              ELSE
                LET s3 == SetP(SetP(SetP(s2, F("schemas"), [kind |-> "schemas", ids |-> {creds[id].schema_id : id \in ids}]),
                                    F("cred_defs"), [kind |-> "cred_defs", ids |-> {creds[id].cred_def_id : id \in ids}]),
                               F("revoc_states"), [kind |-> "revoc_states"])
                    s4 == SetP(s3, F("job_application_requested_creds"), requested_creds(first))
                IN  IF ~Has(s4.prover, F("master_secret_id"))
                    THEN Result(s4, "KeyError")
                    ELSE IF s4.prover[F("master_secret_id")] \notin s4.prover_wallet.secrets
                    THEN Result(s4, "IndyError")
                    ELSE
                      LET proof == Proof(s4.prover_wallet, req, creds, s4.prover[F("job_application_requested_creds")],
                                         s4.prover[F("master_secret_id")])
                          s5 == SetP(s4, F("job_application_proof"), proof)
                          out == auth_crypt(s5.prover[F("key_for_verifier")], s5.prover[F("verifier_key_for_prover")], proof)
                      IN  Result(SetV(SetP(s5, F("authcrypted_job_application_proof"), out),
                                      F("authcrypted_job_application_proof"), out), "none")

\* anoncreds.verifier_verify_proof(request, proof, schemas, cred_defs, ...):
\* true when the proof was made over the request's nonce, answers the request's
\* referents, reveals the attributes asked for from credentials that satisfy
\* the restrictions, self-attests only unrestricted attributes, and every
\* sub-proof was made with the master secret its credential was signed for
verifier_verify_proof(req, proof) ==
  LET rp == proof.requested_proof
  IN  /\ proof.nonce = req.nonce
      /\ DOMAIN rp.self_attested_attrs \cup DOMAIN rp.revealed_attrs = DOMAIN req.requested_attributes
      /\ DOMAIN rp.predicates = DOMAIN req.requested_predicates
      /\ \A r \in DOMAIN rp.self_attested_attrs : req.requested_attributes[r].restrictions = {}
      /\ \A r \in DOMAIN rp.revealed_attrs :
           /\ rp.revealed_attrs[r].attr = req.requested_attributes[r].name
           /\ req.requested_attributes[r].restrictions # {} =>
                rp.revealed_attrs[r].cred_def_id \in req.requested_attributes[r].restrictions
           /\ rp.revealed_attrs[r].link_secret = proof.master_secret_id
      /\ \A r \in DOMAIN rp.predicates :
           /\ req.requested_predicates[r].restrictions # {} =>
                rp.predicates[r].cred_def_id \in req.requested_predicates[r].restrictions
           /\ rp.predicates[r].link_secret = proof.master_secret_id

\* (mutant) the assert statements are not executed
assert_skipped(cond) == TRUE

\* assert cond: passes when cond is true, raises AssertionError when it is not
assert_stmt(cond) == cond

\* the values run asserts the proof to reveal and to self-attest
as_claimed(proof) ==
  LET rp == proof.requested_proof
  IN  /\ \A r \in {"attr3_referent", "attr4_referent", "attr5_referent"} :
           rp.revealed_attrs[r].values.raw = "Bachelor of Science, Marketing"
      /\ rp.self_attested_attrs["attr1_referent"] = "Prover"
      /\ rp.self_attested_attrs["attr2_referent"] = "SecondName"
      /\ rp.self_attested_attrs["attr6_referent"] = "123-45-6789"

\* run, from the verifier's decryption of the proof to 'Credential verified.'
verify_proof(st) ==
  IF ~(Has(st.verifier, F("wallet")) /\ Has(st.verifier, F("key_for_prover"))
       /\ Has(st.verifier, F("authcrypted_job_application_proof")))
  THEN Result(st, "KeyError")
  ELSE IF ~CanDecrypt(st.verifier[F("key_for_prover")], st.verifier[F("authcrypted_job_application_proof")])
  THEN Result(st, "IndyError")
  ELSE
    LET decrypted_job_application_proof == st.verifier[F("authcrypted_job_application_proof")].body
        s1 == SetV(st, F("job_application_proof"), decrypted_job_application_proof)
    IN  IF ~(Has(s1.verifier, F("pool")) /\ Has(s1.verifier, F("did")) /\ Has(s1.verifier, F("name")))
           \/ decrypted_job_application_proof.kind # "proof"
        THEN Result(s1, "KeyError")
        ELSE IF \E item \in decrypted_job_application_proof.identifiers :
                  item.schema_id \notin s1.ledger \/ item.cred_def_id \notin s1.ledger
        THEN Result(s1, "IndyError")
        ELSE
          LET ids == decrypted_job_application_proof.identifiers
              s2 == SetV(SetV(SetV(SetV(s1, F("schemas"), [kind |-> "schemas", ids |-> {i.schema_id : i \in ids}]),
                                   F("cred_defs"), [kind |-> "cred_defs", ids |-> {i.cred_def_id : i \in ids}]),
                              F("revoc_ref_defs"), [kind |-> "revoc_ref_defs"]),
                         F("revoc_regs"), [kind |-> "revoc_regs"])
          IN  IF ~assert_stmt(as_claimed(decrypted_job_application_proof))
              THEN Result(s2, "AssertionError")
              ELSE IF ~Has(s2.verifier, F("job_application_proof_request"))
              THEN Result(s2, "KeyError")
              ELSE IF ~assert_stmt(verifier_verify_proof(s2.verifier[F("job_application_proof_request")],
                                                         s2.verifier[F("job_application_proof")]))
              THEN Result(s2, "AssertionError")
              ELSE Result(s2, "none")

(* ---------------- the program ---------------- *)
\* the actors as onboard_for_proving leaves them (sovrin/claims.py run)
Onboarded ==
  [issuer |-> [k \in {F("name"), F("wallet"), F("pool"), F("did"), F("key_for_prover"), F("prover_connection_response")} |->
                 CASE k = F("name") -> [kind |-> "name", value |-> "issuer"]
                   [] k = F("wallet") -> [kind |-> "wallet_handle", owner |-> "issuer"]
                   [] k = F("pool") -> [kind |-> "pool_handle"]
                   [] k = F("did") -> ISSUER_DID
                   [] k = F("key_for_prover") -> ISSUER_KEY_FOR_PROVER
                   [] OTHER -> [kind |-> "connection_response", did |-> PROVER_DID_FOR_ISSUER]],
   prover |-> [k \in {F("name"), F("wallet"), F("pool"), F("did_for_issuer"), F("key_for_issuer")} |->
                 CASE k = F("name") -> [kind |-> "name", value |-> "prover"]
                   [] k = F("wallet") -> [kind |-> "wallet_handle", owner |-> "prover"]
                   [] k = F("pool") -> [kind |-> "pool_handle"]
                   [] k = F("did_for_issuer") -> PROVER_DID_FOR_ISSUER
                   [] OTHER -> PROVER_KEY_FOR_ISSUER],
   ledger |-> {},
   issuer_wallet |-> {},
   prover_wallet |-> [secrets |-> {}, credentials |-> {}],
   fresh |-> [offers |-> 0, requests |-> 0]]

\* the state with every accepted transaction visible
propagated(st) == [st EXCEPT !.ledger = propagate_all(@)]

\* create_schema then create_credential_definition with what create_schema
\* returned (sovrin/claims.py run), for one schema name, the ledger having
\* caught up by each read
register(st, name) ==
  propagated(create_credential_definition(propagated(create_schema(st, name).st), SchemaId(name), unique_schema_name(name)).st)

\* ... for every schema name in turn
RECURSIVE register_all(_, _)
register_all(st, names) ==
  IF names = {} THEN st
  ELSE LET n == CHOOSE x \in names : TRUE IN register_all(register(st, n), names \ {n})

Registered == register_all(Onboarded, SchemaNames)

\* the state the variables hold
State ==
  [issuer |-> issuer, prover |-> prover, ledger |-> ledger, issuer_wallet |-> issuer_wallet,
   prover_wallet |-> prover_wallet, fresh |-> fresh]

Steps == {"offer", "receive", "request", "issue", "store"}

\* the variables after a call: the state it left behind, and the step recorded
\* as completed for the schema when it returned
Apply(r, op, usn) ==
  /\ issuer' = r.st.issuer
  /\ prover' = r.st.prover
  /\ issuer_wallet' = r.st.issuer_wallet
  /\ prover_wallet' = r.st.prover_wallet
  /\ ledger' = r.st.ledger
  /\ fresh' = r.st.fresh
  /\ done' = IF r.err = "none" THEN [done EXCEPT ![usn] = @ \cup {op}] ELSE done
  /\ UNCHANGED <<anvil_vars, other_vars>>

\* received_data = ''
EMPTY == [kind |-> "empty"]

\* what an anchor posts to /receive to open onboarding, and what anyone may post
ConnectionRequest ==
  [kind |-> "connection_request", did |-> ISSUER_DID, verkey |-> ISSUER_KEY_FOR_PROVER, ip |-> "issuer_ip"]

Garbage == [kind |-> "garbage"]

ReceivePayloads == {ConnectionRequest, Garbage}

\* an offer the onboarded issuer encrypts to the prover's pairwise key
InboxOffer ==
  auth_crypt(ISSUER_KEY_FOR_PROVER, PROVER_KEY_FOR_ISSUER, CredOffer(CredDefId(SchemaId(<<"a">>)), 1))

\* the bodies that may be posted to /credential_inbox
InboxBodies == {Garbage, InboxOffer}

\* the runner and the web app at their start, where they stay while the
\* issuance functions are exercised
AnvilIdle ==
  /\ run_pc = 1
  /\ ran = {}
  /\ web_prover = << >>
  /\ received_data = EMPTY
  /\ anchor_ip = ""
  /\ inbox_calls = 0
  /\ inbox_bodies = [b \in InboxBodies |-> 0]
  /\ unanswered = {}
  /\ anchor_channel = "idle"

\* the actors onboarded and the schemas registered, no negotiation started
IssueInit ==
  /\ issuer = Registered.issuer
  /\ prover = Registered.prover
  /\ ledger = Registered.ledger
  /\ issuer_wallet = Registered.issuer_wallet
  /\ prover_wallet = Registered.prover_wallet
  /\ fresh = Registered.fresh
  /\ done = [s \in Schemas |-> {}]
  /\ SetupIdle
  /\ ProofIdle

Init == IssueInit /\ pc = [s \in Schemas |-> "free"] /\ AnvilIdle

\* any caller, any order: the five functions are called with any schema name
Offer(usn) ==
  /\ pc[usn] = "free"
  /\ fresh.offers < MaxOffers
  /\ Apply(offer_credential(State, usn), "offer", usn)
  /\ UNCHANGED pc

ReceiveOffer(usn) ==
  /\ pc[usn] = "free"
  /\ Cardinality(prover_wallet.secrets) < MaxSecrets
  /\ Apply(receive_credential_offer(State, usn), "receive", usn)
  /\ UNCHANGED pc

Request(values, usn) ==
  /\ pc[usn] = "free"
  /\ fresh.requests < MaxRequests
  /\ Apply(request_credential(State, values, usn), "request", usn)
  /\ UNCHANGED pc

Issue(usn) ==
  /\ pc[usn] = "free"
  /\ Apply(create_and_send_credential(State, usn), "issue", usn)
  /\ UNCHANGED pc

Store(usn) ==
  /\ pc[usn] = "free"
  /\ Apply(store_credential(State, usn), "store", usn)
  /\ UNCHANGED pc

Next ==
  \/ \E s \in Schemas : Offer(s)
  \/ \E s \in Schemas : ReceiveOffer(s)
  \/ \E s \in Schemas, v \in Values : Request(v, s)
  \/ \E s \in Schemas : Issue(s)
  \/ \E s \in Schemas : Store(s)

Spec == Init /\ [][Next]_vars

(* ---------------- two negotiations side by side ---------------- *)
\* One negotiation per schema, each calling the five functions in the order of
\* sovrin/claims.py run; the calls of the two negotiations interleave.  A call
\* that raises ends its negotiation.
InitInterleave == IssueInit /\ pc = [s \in Schemas |-> "offer"] /\ AnvilIdle

\* the negotiation of usn moves on to step `next` when the call returned
Advance(r, usn, next) == pc' = [pc EXCEPT ![usn] = IF r.err = "none" THEN next ELSE "failed"]

RunOffer(usn) ==
  /\ pc[usn] = "offer"
  /\ Apply(offer_credential(State, usn), "offer", usn)
  /\ Advance(offer_credential(State, usn), usn, "receive")

RunReceiveOffer(usn) ==
  /\ pc[usn] = "receive"
  /\ Apply(receive_credential_offer(State, usn), "receive", usn)
  /\ Advance(receive_credential_offer(State, usn), usn, "request")

RunRequest(values, usn) ==
  /\ pc[usn] = "request"
  /\ Apply(request_credential(State, values, usn), "request", usn)
  /\ Advance(request_credential(State, values, usn), usn, "issue")

RunIssue(usn) ==
  /\ pc[usn] = "issue"
  /\ Apply(create_and_send_credential(State, usn), "issue", usn)
  /\ Advance(create_and_send_credential(State, usn), usn, "store")

RunStore(usn) ==
  /\ pc[usn] = "store"
  /\ Apply(store_credential(State, usn), "store", usn)
  /\ Advance(store_credential(State, usn), usn, "stored")

NextInterleave ==
  \/ \E s \in Schemas : RunOffer(s)
  \/ \E s \in Schemas : RunReceiveOffer(s)
  \/ \E s \in Schemas, v \in Values : RunRequest(v, s)
  \/ \E s \in Schemas : RunIssue(s)
  \/ \E s \in Schemas : RunStore(s)

SpecInterleave == InitInterleave /\ [][NextInterleave]_vars

(* ---------------- anvil/sovrin/claims.py: the demo runner ---------------- *)
\* the awaited calls of run, in program order
RunnerCalls ==
  <<"demo_onboard(steward, issuer)", "demo_onboard(steward, verifier)",
    "demo_onboard(issuer, prover)", "demo_onboard(verifier, prover)",
    "create_schema", "create_credential_definition",
    "offer_credential", "receive_credential_offer", "request_credential",
    "create_and_send_credential", "store_credential",
    "request_proof_of_credential", "create_proof_of_credential", "verify_proof",
    "teardown">>

\* the call run makes at position i
RunnerCall(i) == RunnerCalls[i]

\* run awaits its next call, which returns
RunnerStep ==
  /\ run_pc \in 1..Len(RunnerCalls)
  /\ ran' = ran \cup {RunnerCall(run_pc)}
  /\ run_pc' = run_pc + 1
  /\ UNCHANGED <<issue_vars, other_vars, web_prover, received_data, anchor_ip, inbox_calls, inbox_bodies,
                 unanswered, anchor_channel>>

\* run awaits its next call, which raises: the exception ends run
RunnerRaise ==
  /\ run_pc \in 1..Len(RunnerCalls)
  /\ run_pc' = 0
  /\ UNCHANGED <<issue_vars, other_vars, ran, web_prover, received_data, anchor_ip, inbox_calls, inbox_bodies,
                 unanswered, anchor_channel>>

(* ---------------- anvil/prover.py: the prover web app ---------------- *)
\* index: the flags the page is rendered with
setup_flag == web_prover # << >>

have_data == received_data # EMPTY

responded == Has(web_prover, F("connection_response"))

channel_established == anchor_ip # ""

\* common_setup(prover, pool_handle, 'prover'): the actor gets its name, pool and wallet
common_setup(p) ==
  Put(Put(Put(p, F("name"), [kind |-> "name", value |-> "prover"]),
          F("pool"), [kind |-> "pool_handle"]),
      F("wallet"), [kind |-> "wallet_handle", owner |-> "prover"])

\* /setup
WebSetup ==
  /\ web_prover' = common_setup(web_prover)
  /\ UNCHANGED <<issue_vars, other_vars, run_pc, ran, received_data, anchor_ip, inbox_calls, inbox_bodies,
                 unanswered, anchor_channel>>

\* /receive: the posted body replaces received_data and '200' is returned;
\* unanswered: the bodies '200' was returned for that no /respond has handed
\* to common_respond since
WebReceive(payload) ==
  /\ received_data' = payload
  /\ unanswered' = unanswered \cup {payload}
  /\ UNCHANGED <<issue_vars, other_vars, run_pc, ran, web_prover, anchor_ip, inbox_calls, inbox_bodies,
                 anchor_channel>>

\* common_respond(prover, received_data, pool_handle, receiver_port): the onboardee
\* answers the anchor's connection request with its pairwise DID and key
common_respond(p, data) ==
  IF ~Has(p, F("wallet")) \/ data.kind # "connection_request"
  THEN [prover |-> p, anchor_ip |-> "", err |-> "Error"]
  ELSE [prover |-> Put(Put(Put(p, F("did_for_issuer"), PROVER_DID_FOR_ISSUER),
                           F("key_for_issuer"), PROVER_KEY_FOR_ISSUER),
                       F("connection_response"), [kind |-> "connection_response", did |-> PROVER_DID_FOR_ISSUER]),
        anchor_ip |-> data.ip, err |-> "none"]

\* /respond
WebRespond ==
  LET r == common_respond(web_prover, received_data)
  IN  /\ web_prover' = r.prover
      /\ anchor_ip' = IF r.err = "none" THEN r.anchor_ip ELSE anchor_ip
      /\ unanswered' = unanswered \ {received_data}
      /\ anchor_channel' = IF r.err = "none" THEN "received" ELSE anchor_channel
      /\ UNCHANGED <<issue_vars, other_vars, run_pc, ran, received_data, inbox_calls, inbox_bodies>>

\* the anchor handles the connection response it was sent: it decrypts it with
\* its pairwise key and stores the onboardee's DID and key
AnchorDecrypt ==
  /\ anchor_channel = "received"
  /\ anchor_channel' = "decrypted"
  /\ UNCHANGED <<issue_vars, other_vars, run_pc, ran, web_prover, received_data, anchor_ip, inbox_calls,
                 inbox_bodies, unanswered>>

\* what may be posted to /credential_inbox: an offer from the issuer once the
\* prover has answered its connection request, anything else at any time
InboxPayloads == {Garbage} \cup (IF responded THEN {InboxOffer} ELSE {})

\* /credential_inbox, up to the call of receive_credential_offer: the posted
\* body is put in the prover's dict and the call starts
WebCredentialInbox(payload) ==
  /\ inbox_calls < MaxInboxCalls
  /\ web_prover' = Put(web_prover, F("authcrypted_certificate_cred_offer"), payload)
  /\ inbox_calls' = inbox_calls + 1
  /\ inbox_bodies' = [inbox_bodies EXCEPT ![payload] = @ + 1]
  /\ UNCHANGED <<issue_vars, other_vars, run_pc, ran, received_data, anchor_ip, unanswered, anchor_channel>>

\* receive_credential_offer(prover) of the web app: decrypts the offer with the
\* key for the issuer and records the offer and its ids
web_receive_credential_offer(p) ==
  IF ~(Has(p, F("wallet")) /\ Has(p, F("key_for_issuer")))
  THEN [prover |-> p, err |-> "KeyError"]
  ELSE IF ~CanDecrypt(p[F("key_for_issuer")], p[F("authcrypted_certificate_cred_offer")])
  THEN [prover |-> p, err |-> "IndyError"]
  ELSE
    LET offer == p[F("authcrypted_certificate_cred_offer")].body
    IN  [prover |-> Put(Put(Put(p, F("cred_offer"), offer), F("schema_id"), offer.schema_id),
                        F("cred_def_id"), offer.cred_def_id),
         err |-> "none"]

\* /credential_inbox, the call of receive_credential_offer returning or raising,
\* for any one of the requests in progress
WebCredentialInboxReturn ==
  /\ inbox_calls > 0
  /\ web_prover' = web_receive_credential_offer(web_prover).prover
  /\ inbox_calls' = inbox_calls - 1
  /\ \E b \in InboxBodies :
       /\ inbox_bodies[b] > 0
       /\ inbox_bodies' = [inbox_bodies EXCEPT ![b] = @ - 1]
  /\ UNCHANGED <<issue_vars, other_vars, run_pc, ran, received_data, anchor_ip, unanswered, anchor_channel>>

\* the demo runner and the prover web app, each on its own
InitAnvil == IssueInit /\ pc = [s \in Schemas |-> "idle"] /\ AnvilIdle

NextAnvil ==
  \/ RunnerStep
  \/ RunnerRaise
  \/ WebSetup
  \/ \E d \in ReceivePayloads : WebReceive(d)
  \/ WebRespond
  \/ AnchorDecrypt
  \/ \E d \in InboxPayloads : WebCredentialInbox(d)
  \/ WebCredentialInboxReturn

SpecAnvil == InitAnvil /\ [][NextAnvil]_vars

(* ---------------- schema.py: registration on its own ---------------- *)
\* schema['name'] of the schemas registered here: upper case, a space, a hyphen
RegNames == {<<"A", " ", "b">>, <<"a", "-", "B">>, <<"B", "-", "a">>, <<"b">>}

\* the variables after create_schema or create_credential_definition
ApplyReg(r) ==
  /\ issuer' = r.st.issuer
  /\ issuer_wallet' = r.st.issuer_wallet
  /\ ledger' = r.st.ledger
  /\ UNCHANGED <<prover, prover_wallet, fresh, done, pc, anvil_vars, other_vars>>

\* the issuer onboarded, nothing registered yet
InitRegister ==
  /\ issuer = Onboarded.issuer
  /\ prover = Onboarded.prover
  /\ ledger = Onboarded.ledger
  /\ issuer_wallet = Onboarded.issuer_wallet
  /\ prover_wallet = Onboarded.prover_wallet
  /\ fresh = Onboarded.fresh
  /\ done = [s \in Schemas |-> {}]
  /\ pc = [s \in Schemas |-> "idle"]
  /\ AnvilIdle
  /\ SetupIdle
  /\ ProofIdle

\* create_schema(schema, issuer) is called
RegCreateSchema(name) ==
  /\ name \in RegNames
  /\ ApplyReg(create_schema(State, name))

\* create_credential_definition is called with what an earlier create_schema returned
RegCreateCredentialDefinition(name) ==
  /\ SchemaId(name) \in propagate_all(ledger)
  /\ ApplyReg(create_credential_definition(State, SchemaId(name), unique_schema_name(name)))

\* an accepted transaction becomes visible to reads
LedgerPropagate(id) ==
  /\ Pending(id) \in ledger
  /\ ledger' = propagate(ledger, id)
  /\ UNCHANGED <<issuer, issuer_wallet, prover, prover_wallet, fresh, done, pc, anvil_vars, other_vars>>

NextRegister ==
  \/ \E n \in RegNames : RegCreateSchema(n)
  \/ \E n \in RegNames : RegCreateCredentialDefinition(n)
  \/ \E n \in RegNames : LedgerPropagate(SchemaId(n))
  \/ \E n \in RegNames : LedgerPropagate(CredDefId(SchemaId(n)))

SpecRegister == InitRegister /\ [][NextRegister]_vars

(* ---------------- setup.py: pool and steward setup ---------------- *)
PoolNames == {"ANVIL", "local"}

WalletIds == {"mocked_steward_id", "other_steward_id"}

STEWARD_SEED == "000000000000000000000000Steward1"

\* the part of a result the caller sees
Returned(r) == [rec |-> r.rec, err |-> r.err, create_err |-> r.create_err]

InitSetup ==
  /\ SetupIdle
  /\ ProofIdle
  /\ issuer = Onboarded.issuer
  /\ prover = Onboarded.prover
  /\ ledger = Onboarded.ledger
  /\ issuer_wallet = Onboarded.issuer_wallet
  /\ prover_wallet = Onboarded.prover_wallet
  /\ fresh = Onboarded.fresh
  /\ done = [s \in Schemas |-> {}]
  /\ pc = [s \in Schemas |-> "idle"]
  /\ AnvilIdle

\* setup_pool(name) is called
SetupPool(name, fault) ==
  LET r == setup_pool(machine, name, fault)
  IN  /\ machine' = r.env
      /\ pool_res' = Returned(r)
      /\ UNCHANGED <<steward_res, issue_vars, anvil_vars, proof_vars>>

\* setup_steward is called with the pool_ that setup_pool returned
SetupSteward(id_, fault) ==
  LET r == setup_steward(machine, pool_res.rec, id_, STEWARD_SEED, fault)
  IN  /\ pool_res.err = "none"
      /\ machine' = r.env
      /\ steward_res' = Returned(r)
      /\ UNCHANGED <<pool_res, issue_vars, anvil_vars, proof_vars>>

\* the process ends and another starts: what exists on the machine stays,
\* handles and returned records are gone
Restart ==
  /\ machine' = [machine EXCEPT !.open_pools = {}, !.open_wallets = {}]
  /\ pool_res' = NotCalled
  /\ steward_res' = NotCalled
  /\ UNCHANGED <<issue_vars, anvil_vars, proof_vars>>

NextSetup ==
  \/ \E n \in PoolNames, f \in Faults : SetupPool(n, f)
  \/ \E w \in WalletIds, f \in Faults : SetupSteward(w, f)
  \/ Restart

SpecSetup == InitSetup /\ [][NextSetup]_vars

(* ---------------- claims.py: run's proof section ---------------- *)
\* the five issuance calls of run for one schema, each returning
issue(st, usn, values) ==
  store_credential(
    create_and_send_credential(
      request_credential(
        receive_credential_offer(offer_credential(st, usn).st, usn).st, values, usn).st, usn).st, usn).st

\* ... for each of the schemas in turn
RECURSIVE issue_all(_, _, _)
issue_all(st, schemas, values) ==
  IF schemas = {} THEN st
  ELSE LET u == CHOOSE x \in schemas : TRUE
       IN  issue_all(issue(st, u, values), schemas \ {u}, values)

\* the values of the credentials the prover holds when a proof is asked for:
\* run's, or those of a schema that has no first_name and last_name
ProofValues ==
  Values \cup {[kind |-> "cred_values", raw |-> "Bachelor of Science, Marketing",
                attrs |-> CredAttrs \ {"first_name", "last_name"}]}

\* the verifier as simple_onboard and onboarding leave it
OnboardedVerifier ==
  [k \in {F("name"), F("wallet"), F("pool"), F("did"), F("key_for_prover"), F("prover_connection_response")} |->
     CASE k = F("name") -> [kind |-> "name", value |-> "verifier"]
       [] k = F("did") -> [kind |-> "did", owner |-> "verifier"]
       [] k = F("wallet") -> [kind |-> "wallet_handle", owner |-> "verifier"]
       [] k = F("pool") -> [kind |-> "pool_handle"]
       [] k = F("key_for_prover") -> VERIFIER_KEY_FOR_PROVER
       [] OTHER -> [kind |-> "connection_response", did |-> PROVER_DID_FOR_VERIFIER]]

\* the prover's dict once onboarding(verifier, prover) has returned
onboarded_with_verifier(p) ==
  Put(Put(p, F("did_for_verifier"), PROVER_DID_FOR_VERIFIER), F("key_for_verifier"), PROVER_KEY_FOR_VERIFIER)

\* the state the proof section acts on
ProofState ==
  [verifier |-> verifier, prover |-> prover, issuer |-> issuer, prover_wallet |-> prover_wallet, ledger |-> ledger]

\* the prover holds the credentials of the schemas in `held`, issued one after
\* the other; verifier and prover are onboarded with each other
InitProof ==
  /\ \E held \in SUBSET Schemas, values \in ProofValues :
       LET st == issue_all(Registered, held, values)
       IN  /\ issuer = st.issuer
           /\ prover = onboarded_with_verifier(st.prover)
           /\ ledger = st.ledger
           /\ issuer_wallet = st.issuer_wallet
           /\ prover_wallet = st.prover_wallet
           /\ fresh = st.fresh
           /\ done = [s \in Schemas |-> IF s \in held THEN Steps ELSE {}]
  /\ pc = [s \in Schemas |-> "idle"]
  /\ AnvilIdle
  /\ SetupIdle
  /\ verifier = OnboardedVerifier
  /\ proof_pc = "request"
  /\ proof_requests = << >>

\* the variables after a step of the proof section
ApplyProof(r, next) ==
  /\ verifier' = r.st.verifier
  /\ prover' = r.st.prover
  /\ proof_pc' = IF r.err = "none" THEN next ELSE "failed"
  /\ UNCHANGED <<issuer, ledger, issuer_wallet, prover_wallet, fresh, done, pc, anvil_vars, setup_vars>>

\* the verifier builds a proof request restricted to the definition of usn
\* and delivers it
RequestProof(usn) ==
  /\ proof_pc = "request"
  /\ Len(proof_requests) < MaxProofRequests
  /\ ApplyProof(request_proof(ProofState, usn), "create")
  /\ proof_requests' =
       IF request_proof(ProofState, usn).err = "none"
       THEN Append(proof_requests, request_proof(ProofState, usn).st.verifier[F("job_application_proof_request")])
       ELSE proof_requests

\* the prover fetches the credentials, creates the proof and delivers it
CreateProof ==
  /\ proof_pc = "create"
  /\ \E first \in Firsts(prover_wallet, prover[F("authcrypted_job_application_proof_request")].body) :
       ApplyProof(create_proof(ProofState, first), "sent")
  /\ UNCHANGED proof_requests

\* the verifier decrypts the proof, fetches its entities and verifies it
VerifyProof ==
  /\ proof_pc = "sent"
  /\ ApplyProof(verify_proof(ProofState), "verified")
  /\ UNCHANGED proof_requests

\* run is executed again for the same verifier and prover
ProofAgain ==
  /\ proof_pc \in {"verified", "failed"}
  /\ proof_pc' = "request"
  /\ UNCHANGED <<issue_vars, anvil_vars, setup_vars, verifier, proof_requests>>

NextProof ==
  \/ \E s \in Schemas : RequestProof(s)
  \/ CreateProof
  \/ VerifyProof
  \/ ProofAgain

SpecProof == InitProof /\ [][NextProof]_vars

(* ---------------- properties of the issuance protocol ---------------- *)
\* C1: per schema the states are entered in the order Offered, Requested,
\* Issued, Stored: store_credential returns only after create_and_send_credential
\* has, which returns only after request_credential has, which returns only
\* after offer_credential and receive_credential_offer have, for that schema.
C1_StrictOrder ==
  \A s \in Schemas :
    /\ "store" \in done[s] => "issue" \in done[s]
    /\ "issue" \in done[s] => "request" \in done[s]
    /\ "request" \in done[s] => {"offer", "receive"} \subseteq done[s]

\* C2: a step called for a schema before its prerequisite step has completed
\* for that schema is rejected: it raises (whatever the exception is named)
\* instead of returning, so the protocol state does not advance.
C2_OutOfOrderRejected ==
  \A s \in Schemas :
    /\ "offer" \notin done[s] => receive_credential_offer(State, s).err # "none"
    /\ "receive" \notin done[s] => \A v \in Values : request_credential(State, v, s).err # "none"
    /\ "request" \notin done[s] => create_and_send_credential(State, s).err # "none"
    /\ "issue" \notin done[s] => store_credential(State, s).err # "none"

\* C3: once the prover has a master secret, no step assigns another
\* master_secret_id or creates another secret in the wallet.
C3_MasterSecretOnce ==
  [][Has(prover, F("master_secret_id")) =>
       /\ prover'[F("master_secret_id")] = prover[F("master_secret_id")]
       /\ prover_wallet'.secrets = prover_wallet.secrets]_vars

\* a set of values the prover did not supply
OtherValues == [kind |-> "cred_values", raw |-> "other", attrs |-> CredAttrs]

\* C4: the values create_and_send_credential signs do not depend on the values
\* the prover supplied to request_credential: with other prover-supplied
\* values in the prover's state the same values are signed.
C4_IssuerValuesSigned ==
  \A s \in Schemas :
    LET r == create_and_send_credential(State, s)
        q == create_and_send_credential(SetP(State, K(s, "_cred_values"), OtherValues), s)
    IN  r.err = "none" =>
          /\ q.err = "none"
          /\ q.st.issuer[K(s, "_cred")].values = r.st.issuer[K(s, "_cred")].values

\* the keys of a dict that hold envelopes delivered by the peer
InboxKeys == {F("authcrypted_certificate_cred_offer"), F("authcrypted_certificate_cred_request"),
              F("authcrypted_certificate_cred")}

\* dicts d and e agree except for delivered envelopes
SameButInbox(d, e) ==
  /\ DOMAIN d \ InboxKeys = DOMAIN e \ InboxKeys
  /\ \A k \in DOMAIN d \ InboxKeys : d[k] = e[k]

\* the peer's dict with everything but its inbox forgotten
Blank(d, d0) == [k \in DOMAIN d0 \cup (DOMAIN d \cap InboxKeys) |-> IF k \in DOMAIN d0 THEN d0[k] ELSE d[k]]

\* C5: a step changes the peer's state only by delivering an envelope, and what
\* it does to its own actor's state does not depend on the peer's fields.
C5_OwnStateOnly ==
  LET noProver == [State EXCEPT !.prover = Blank(prover, Registered.prover)]
      noIssuer == [State EXCEPT !.issuer = Blank(issuer, Registered.issuer)]
  IN  \A s \in Schemas :
        /\ SameButInbox(offer_credential(State, s).st.prover, prover)
        /\ SameButInbox(create_and_send_credential(State, s).st.prover, prover)
        /\ SameButInbox(receive_credential_offer(State, s).st.issuer, issuer)
        /\ SameButInbox(store_credential(State, s).st.issuer, issuer)
        /\ \A v \in Values : SameButInbox(request_credential(State, v, s).st.issuer, issuer)
        /\ offer_credential(noProver, s).st.issuer = offer_credential(State, s).st.issuer
        /\ create_and_send_credential(noProver, s).st.issuer = create_and_send_credential(State, s).st.issuer
        /\ receive_credential_offer(noIssuer, s).st.prover = receive_credential_offer(State, s).st.prover
        /\ store_credential(noIssuer, s).st.prover = store_credential(State, s).st.prover
        /\ \A v \in Values : request_credential(noIssuer, v, s).st.prover = request_credential(State, v, s).st.prover

\* value v is, or is an envelope around, the artifact m
Carries(v, m) ==
  \/ v.kind = m.kind /\ v = m
  \/ v.kind = "envelope" /\ v.body.kind = m.kind /\ v.body = m

\* C6: the request metadata of a schema is in no field of the issuer's state
\* and in no envelope handed to the transport.
C6_MetadataPrivate ==
  \A s \in Schemas :
    Has(prover, K(s, "_cred_request_metadata")) =>
      LET m == prover[K(s, "_cred_request_metadata")]
      IN  /\ \A k \in DOMAIN issuer : ~Carries(issuer[k], m)
          /\ \A k \in DOMAIN prover \cap InboxKeys : ~Carries(prover[k], m)

\* C6 witness: a request was built and its envelope delivered to the issuer
C6_Witness ==
  \E s \in Schemas :
    /\ "request" \in done[s]
    /\ Has(prover, K(s, "_cred_request_metadata"))
    /\ Has(issuer, F("authcrypted_certificate_cred_request"))
    /\ issuer[F("authcrypted_certificate_cred_request")].body = prover[K(s, "_cred_request")]

\* store_credential called for schema s gets as far as prover_store_credential
StoreReachesEngine(s) ==
  /\ Has(prover, F("authcrypted_certificate_cred"))
  /\ CanDecrypt(prover[F("key_for_issuer")], prover[F("authcrypted_certificate_cred")])
  /\ Has(prover, K(s, "_cred_def_id"))
  /\ on_ledger(ledger, prover[K(s, "_cred_def_id")])
  /\ Has(prover, K(s, "_cred_request_metadata"))

\* C8: the credential definition store_credential passes to
\* prover_store_credential for a schema has the cred_def_id the schema's
\* credential request was built for.
C8_StoreUsesRequestCredDef ==
  \A s \in Schemas :
    StoreReachesEngine(s) =>
      store_credential(State, s).st.prover[K(s, "_cred_def")].id = prover[K(s, "_cred_request")].cred_def_id

OwnCredDefId(s) == issuer[K(s, "_cred_def_id")]

\* schema s ended stored and bound to its own offer, request and definition
StoredOwn(s) ==
  /\ pc[s] = "stored"
  /\ prover[K(s, "_cred_offer")] = issuer[K(s, "_cred_offer")]
  /\ prover[K(s, "_cred_def_id")] = OwnCredDefId(s)
  /\ prover[K(s, "_cred_request")].cred_def_id = OwnCredDefId(s)
  /\ prover[K(s, "_cred_def")].id = OwnCredDefId(s)
  /\ prover[K(s, "_cred")].cred_def_id = OwnCredDefId(s)
  /\ prover[K(s, "_cred")] \in prover_wallet.credentials

\* C7: whatever the interleaving of two negotiations (each one's calls in
\* order), when both have ended each schema's credential is stored and bound
\* to its own offer, request and credential definition, as when one
\* negotiation runs after the other.
C7_InterleavingAsSequential ==
  (\A s \in Schemas : pc[s] \in {"stored", "failed"}) => \A s \in Schemas : StoredOwn(s)

\* one negotiation after the other ends with both stored
C7_SequentialEnd == \A s \in Schemas : StoredOwn(s)

(* ---------------- properties of the runner and the web app ---------------- *)
IssuanceCalls ==
  {"offer_credential", "receive_credential_offer", "request_credential",
   "create_and_send_credential", "store_credential"}

ProofCalls == {"request_proof_of_credential", "create_proof_of_credential", "verify_proof"}

\* the runner has made no issuance call before onboarding issuer and prover and
\* registering schema and definition, no proof call before onboarding verifier
\* and prover, and has created no proof before the credential was stored
RunnerInOrder ==
  /\ ran \cap IssuanceCalls # {} =>
       {"demo_onboard(issuer, prover)", "create_schema", "create_credential_definition"} \subseteq ran
  /\ ran \cap ProofCalls # {} => "demo_onboard(verifier, prover)" \in ran
  /\ "create_proof_of_credential" \in ran => "store_credential" \in ran

\* the web app has taken in no offer, and started no receive_credential_offer,
\* before the prover answered the issuer's connection request
InboxAfterOnboarding ==
  (inbox_calls > 0 \/ Has(web_prover, F("authcrypted_certificate_cred_offer"))) => responded

\* C10: no issuance or proof step runs before the onboarding of its two actors
\* has completed, no issuance step before schema and definition are
\* registered, no proof is created before the credential is stored: in the
\* demo runner and at /credential_inbox, in whatever order requests arrive.
C10_PrerequisitesFirst == RunnerInOrder /\ InboxAfterOnboarding

\* C11: on the prover, at most one receive_credential_offer started by
\* /credential_inbox is in progress at a time for one (issuer, prover, schema):
\* no two requests carrying an offer of the same issuer for the same schema
\* are between the start and the return of their call.
C11_InboxSerialized ==
  \A b \in InboxBodies, c \in InboxBodies :
    (/\ b.kind = "envelope" /\ c.kind = "envelope"
     /\ b.sender = c.sender
     /\ b.body.schema_id = c.body.schema_id
     /\ inbox_bodies[b] > 0 /\ inbox_bodies[c] > 0)
    => b = c /\ inbox_bodies[b] = 1
(* ---------------- properties of registration ---------------- *)
\* C12: once a schema and its definition are registered, create_schema
\* followed by create_credential_definition with the same input returns
\* without error both times, records the same schema and definition ids, and
\* leaves the ledger as it was.
C12_RegistrationIdempotent ==
  \A n \in RegNames :
    LET usn == unique_schema_name(n)
        cd == CredDefId(SchemaId(n))
        r1 == create_schema(State, n)
        r2 == create_credential_definition(propagated(r1.st), SchemaId(n), usn)
    IN  (SchemaId(n) \in ledger /\ cd \in ledger /\ cd \in issuer_wallet) =>
          /\ r1.err = "none"
          /\ r2.err = "none"
          /\ r2.st.issuer[F("schema_id")] = SchemaId(n)
          /\ r2.st.issuer[K(usn, "_cred_def_id")] = cd
          /\ r2.st.ledger = ledger

\* C15: create_credential_definition called for a schema that was registered
\* and that reads of the ledger do not return yet does not fail: it waits for
\* the schema and publishes the definition.
C15_ToleratesPropagationDelay ==
  \A n \in RegNames :
    (Pending(SchemaId(n)) \in ledger /\ CredDefId(SchemaId(n)) \notin issuer_wallet) =>
      LET r == create_credential_definition(State, SchemaId(n), unique_schema_name(n))
      IN  /\ r.err = "none"
          /\ CredDefId(SchemaId(n)) \in propagate_all(r.st.ledger)

\* usn is name lower-cased with spaces and hyphens replaced by underscores
IsCanonical(usn, name) ==
  /\ Len(usn) = Len(name)
  /\ \A i \in 1..Len(name) :
       /\ usn[i] \notin {" ", "-", "A", "B"}
       /\ name[i] \in {" ", "-"} => usn[i] = "_"
       /\ name[i] = "A" => usn[i] = "a"
       /\ name[i] = "B" => usn[i] = "b"
       /\ name[i] \notin {" ", "-", "A", "B"} => usn[i] = name[i]

\* the keys a call wrote a new value under
Written(before, after) == {k \in DOMAIN after : ~Has(before, k) \/ after[k] # before[k]}

\* key k is usn followed by a suffix
Namespaced(k, usn) == Len(k) > Len(usn) /\ SubSeq(k, 1, Len(usn)) = usn

\* C16: create_schema returns the canonical form of the schema's name, and
\* every key create_schema and create_credential_definition write on the issuer
\* is namespaced by it.
C16_CanonicalNamespace ==
  \A n \in RegNames :
    LET usn == unique_schema_name(n)
        r1 == create_schema(State, n)
        r2 == create_credential_definition(State, SchemaId(n), usn)
    IN  /\ IsCanonical(usn, n)
        /\ \A k \in Written(issuer, r1.st.issuer) : Namespaced(k, usn)
        /\ \A k \in Written(issuer, r2.st.issuer) : Namespaced(k, usn)

(* ---------------- properties of setup ---------------- *)
\* C13: when the pool config (the wallet) exists already, setup_pool
\* (setup_steward) ends exactly as it does when the config (wallet) does not
\* exist and the create call succeeds: it goes on to open, and, the pool
\* (wallet) not being open already, returns a record with a handle.
C13_AlreadyExistsIsSuccess ==
  /\ \A n \in PoolNames :
       LET r == setup_pool(machine, n, "none")
           q == setup_pool([machine EXCEPT !.pool_configs = @ \ {n}], n, "none")
       IN  n \in machine.pool_configs =>
             /\ r.create_err = "PoolLedgerConfigAlreadyExistsError"
             /\ r.rec = q.rec /\ r.err = q.err /\ r.env = q.env
             /\ n \notin machine.open_pools =>
                  /\ r.err = "none"
                  /\ Has(r.rec, F("handle"))
                  /\ n \in r.env.open_pools
  /\ \A w \in WalletIds :
       LET r == setup_steward(machine, pool_res.rec, w, STEWARD_SEED, "none")
           q == setup_steward([machine EXCEPT !.wallets = @ \ {w}], pool_res.rec, w, STEWARD_SEED, "none")
       IN  (pool_res.err = "none" /\ w \in machine.wallets) =>
             /\ r.create_err = "WalletAlreadyExistsError"
             /\ r.rec = q.rec /\ r.err = q.err /\ r.env = q.env
             /\ w \notin machine.open_wallets =>
                  /\ r.err = "none"
                  /\ Has(r.rec, F("wallet"))
                  /\ w \in r.env.open_wallets

\* C13 witness: setup_pool and setup_steward have both returned a record with
\* a handle after their create call met the already-exists error
C13_Witness ==
  /\ pool_res.create_err = "PoolLedgerConfigAlreadyExistsError"
  /\ pool_res.err = "none" /\ Has(pool_res.rec, F("handle"))
  /\ steward_res.create_err = "WalletAlreadyExistsError"
  /\ steward_res.err = "none" /\ Has(steward_res.rec, F("wallet"))

\* C14: when the create call fails with an error other than already-exists,
\* setup_pool and setup_steward end with that error and open nothing.
C14_OtherErrorsPropagate ==
  /\ \A n \in PoolNames, f \in Faults \ {"none"} :
       LET r == setup_pool(machine, n, f)
       IN  r.err = f /\ r.env = machine
  /\ \A w \in WalletIds, f \in Faults \ {"none"} :
       LET r == setup_steward(machine, pool_res.rec, w, STEWARD_SEED, f)
       IN  pool_res.err = "none" => r.err = f /\ r.env = machine

(* ---------------- properties of the proof section ---------------- *)
\* the proof request delivered to the prover
Delivered == prover[F("authcrypted_job_application_proof_request")].body

\* the sets self, revealed and predicate of referents cover the referents of
\* req, each referent in exactly one of them
ExactCover(self, revealed, predicate, req) ==
  /\ self \cup revealed \cup predicate = Referents(req)
  /\ self \cap revealed = {} /\ self \cap predicate = {} /\ revealed \cap predicate = {}

\* C17: when the prover creates a proof for a request, the
\* requested-credentials structure it builds and the proof it sends name every
\* referent of the request in exactly one of self-attested, revealed and
\* predicate, and no other referent.
C17_ReferentsExactlyCovered ==
  proof_pc = "create" =>
    \A first \in Firsts(prover_wallet, Delivered) :
      LET r == create_proof(ProofState, first)
          rc == r.st.prover[F("job_application_requested_creds")]
          rp == r.st.verifier[F("authcrypted_job_application_proof")].body.requested_proof
      IN  r.err = "none" =>
            /\ ExactCover(DOMAIN rc.self_attested_attributes, DOMAIN rc.requested_attributes,
                          DOMAIN rc.requested_predicates, Delivered)
            /\ ExactCover(DOMAIN rp.self_attested_attrs, DOMAIN rp.revealed_attrs, DOMAIN rp.predicates, Delivered)

\* C17 witness: a proof was created for the delivered request and sent
C17_Witness ==
  /\ proof_pc = "sent"
  /\ verifier[F("authcrypted_job_application_proof")].body = prover[F("job_application_proof")]
  /\ prover[F("job_application_proof_request")] = Delivered

\* C18: the credential the prover selects for a referent whose restrictions
\* name a cred_def_id has that cred_def_id, both in the map of selected
\* credentials and in the requested-credentials structure.
C18_SelectedMatchesRestriction ==
  proof_pc = "create" =>
    \A first \in Firsts(prover_wallet, Delivered) :
      LET r == create_proof(ProofState, first)
          rc == r.st.prover[F("job_application_requested_creds")]
          creds == r.st.prover[F("creds_for_job_application_proof")].map
      IN  /\ \A i \in 1..Len(Searched) :
               (first[Searched[i]] # NONE /\ ReferentItem(Delivered, Searched[i]).restrictions # {}) =>
                 first[Searched[i]].cred_def_id \in ReferentItem(Delivered, Searched[i]).restrictions
          /\ r.err = "none" =>
                /\ \A x \in DOMAIN rc.requested_attributes :
                     ReferentItem(Delivered, x).restrictions # {} =>
                       creds[rc.requested_attributes[x].cred_id].cred_def_id \in ReferentItem(Delivered, x).restrictions
                /\ \A x \in DOMAIN rc.requested_predicates :
                     ReferentItem(Delivered, x).restrictions # {} =>
                       creds[rc.requested_predicates[x].cred_id].cred_def_id \in ReferentItem(Delivered, x).restrictions

\* C18 witness: the prover holds credentials under two definitions and has
\* created a proof for a request restricted to one of them
C18_Witness ==
  /\ proof_pc = "sent"
  /\ Cardinality({c.cred_def_id : c \in prover_wallet.credentials}) = 2
  /\ \A x \in DOMAIN prover[F("job_application_requested_creds")].requested_attributes :
       prover[F("creds_for_job_application_proof")].map[
         prover[F("job_application_requested_creds")].requested_attributes[x].cred_id].cred_def_id
       \in ReferentItem(Delivered, x).restrictions

\* the request has a restricted referent that no credential of the wallet matches
NoMatch(pw, req) ==
  \E x \in Referents(req) :
    /\ ReferentItem(req, x).restrictions # {}
    /\ \A c \in pw.credentials : c.cred_def_id \notin ReferentItem(req, x).restrictions

\* dict e holds under key k what dict d held (nothing, when d held nothing)
Kept(d, e, k) == (Has(e, k) <=> Has(d, k)) /\ (Has(d, k) => e[k] = d[k])

\* C19: when the prover holds no credential matching a restricted referent of
\* the request, proof creation ends with an error, and creates and sends no
\* proof.
C19_NoMatchNoProof ==
  (proof_pc = "create" /\ NoMatch(prover_wallet, Delivered)) =>
    \A first \in Firsts(prover_wallet, Delivered) :
      LET r == create_proof(ProofState, first)
      IN  /\ r.err # "none"
          /\ Kept(prover, r.st.prover, F("job_application_proof"))
          /\ Kept(prover, r.st.prover, F("authcrypted_job_application_proof"))
          /\ Kept(verifier, r.st.verifier, F("authcrypted_job_application_proof"))

\* C19 witness: the prover holds a credential, but none under the definition
\* the request is restricted to, and proof creation has failed
C19_Witness ==
  /\ proof_pc = "failed"
  /\ prover_wallet.credentials # {}
  /\ prover[F("job_application_proof_request")] = Delivered
  /\ NoMatch(prover_wallet, Delivered)
  /\ ~Has(verifier, F("authcrypted_job_application_proof"))

\* C20: no two proof requests the verifier has built for the prover carry the
\* same nonce.
C20_NonceNeverRepeats ==
  \A i \in 1..Len(proof_requests), j \in 1..Len(proof_requests) :
    i # j => proof_requests[i].nonce # proof_requests[j].nonce

\* C24: a step that raises leaves the dict of the actor that took it as it was
\* before the call (offer_credential and create_and_send_credential act for the
\* issuer, the other three for the prover).
C24_FailedStepLeavesActorState ==
  \A s \in Schemas :
    /\ offer_credential(State, s).err # "none" => offer_credential(State, s).st.issuer = issuer
    /\ create_and_send_credential(State, s).err # "none" => create_and_send_credential(State, s).st.issuer = issuer
    /\ receive_credential_offer(State, s).err # "none" => receive_credential_offer(State, s).st.prover = prover
    /\ store_credential(State, s).err # "none" => store_credential(State, s).st.prover = prover
    /\ \A v \in Values :
         request_credential(State, v, s).err # "none" => request_credential(State, v, s).st.prover = prover

\* the fields of the prover's dict that make up the record of a stored credential
StoredRecordKeys(s) ==
  {K(s, "_schema_id"), K(s, "_cred_def_id"), K(s, "_cred_request_metadata"), K(s, "_cred")}

\* dict e holds for every key of ks what dict d holds
KeptAll(d, e, ks) == \A k \in ks : Kept(d, e, k)

\* C25: once store_credential has returned for a schema, no step taken for that
\* schema changes its schema id, credential definition id, request metadata or
\* credential in the prover's dict.
C25_StoredRecordImmutable ==
  \A s \in Schemas :
    "store" \in done[s] =>
      /\ KeptAll(prover, offer_credential(State, s).st.prover, StoredRecordKeys(s))
      /\ KeptAll(prover, receive_credential_offer(State, s).st.prover, StoredRecordKeys(s))
      /\ KeptAll(prover, create_and_send_credential(State, s).st.prover, StoredRecordKeys(s))
      /\ KeptAll(prover, store_credential(State, s).st.prover, StoredRecordKeys(s))
      /\ \A v \in Values : KeptAll(prover, request_credential(State, v, s).st.prover, StoredRecordKeys(s))

\* the state with the delivered credential request encrypted by another key
\* than the one the issuer resolved for the prover
RequestFromOtherKey ==
  SetI(State, F("authcrypted_certificate_cred_request"),
       [issuer[F("authcrypted_certificate_cred_request")] EXCEPT !.sender = PROVER_KEY_FOR_VERIFIER])

\* C27: whoever encrypted the credential request, the credential envelope is
\* encrypted to the key resolved from the DID of the prover's connection response.
C27_CredentialToResolvedKey ==
  \A s \in Schemas :
    (Has(issuer, F("authcrypted_certificate_cred_request")) /\ Has(issuer, F("prover_connection_response"))) =>
      LET r == create_and_send_credential(RequestFromOtherKey, s)
      IN  r.err = "none" =>
            r.st.issuer[F("authcrypted_certificate_cred")].recipient
              = key_for_did(issuer[F("prover_connection_response")].did)


\* schema a is registered and the issuer's dict holds its schema and its
\* definition under a's unique schema name
RegisteredAs(a) ==
  /\ Has(issuer, K(unique_schema_name(a), "_schema"))
  /\ Has(issuer, K(unique_schema_name(a), "_cred_def_id"))
  /\ issuer[K(unique_schema_name(a), "_schema")] = SchemaArtifact(a)
  /\ issuer[K(unique_schema_name(a), "_cred_def_id")] = CredDefId(SchemaId(a))

\* C29: registering a schema with another name leaves the schema (with its
\* schema id) and the credential definition id the issuer holds for a schema
\* registered before as they were, also when the two names differ only in
\* letter case, spaces or hyphens.
C29_SchemasKeptApart ==
  \A a \in RegNames : \A b \in RegNames \ {a} :
    RegisteredAs(a) =>
      LET after == register(State, b).issuer
      IN  /\ Kept(issuer, after, K(unique_schema_name(a), "_schema"))
          /\ Kept(issuer, after, K(unique_schema_name(a), "_cred_def_id"))


\* C23: the channel_established flag of the index page is true in exactly the
\* states where the onboardee knows the anchor's endpoint and the anchor has
\* decrypted the onboardee's connection response.
C23_ChannelEstablishedExactly ==
  channel_established <=> (anchor_ip # "" /\ anchor_channel = "decrypted")

\* C28: every body /receive returned '200' for and /respond has not handed to
\* common_respond yet is the one received_data holds, so that the next /respond
\* hands it over: none was replaced by a later /receive.
C28_NoAcceptedPayloadLost ==
  unanswered \subseteq {received_data}


\* the proof request the verifier holds, and the proof it has decrypted
Issued == verifier[F("job_application_proof_request")]

Received == verifier[F("job_application_proof")]

\* the state with the proof envelope the prover sent for an earlier request
\* delivered to the verifier again
Replayed ==
  SetV(ProofState, F("authcrypted_job_application_proof"), prover[F("authcrypted_job_application_proof")])

\* C21: when the verifier has issued a new request and the proof envelope
\* made for an earlier request is delivered to it, the verifier does not verify
\* that proof as valid.
C21_ReplayRejected ==
  (proof_pc = "create" /\ Len(proof_requests) > 1 /\ Has(prover, F("authcrypted_job_application_proof"))) =>
    verify_proof(Replayed).err # "none"

\* C22: run gets to 'Credential verified.' only when verifier_verify_proof
\* returned true for the request and the proof the verifier holds; when it
\* returns false run ends with an exception.
C22_VerifiedOnlyIfValid ==
  /\ proof_pc = "verified" => verifier_verify_proof(Issued, Received)
  /\ proof_pc = "sent" =>
       LET r == verify_proof(ProofState)
       IN  /\ r.err = "none" =>
                verifier_verify_proof(r.st.verifier[F("job_application_proof_request")],
                                      r.st.verifier[F("job_application_proof")])
           /\ (r.st.verifier[F("job_application_proof")].kind = "proof"
               /\ ~verifier_verify_proof(r.st.verifier[F("job_application_proof_request")],
                                         r.st.verifier[F("job_application_proof")])) => r.err # "none"

\* C22 witness: the verifier decrypted a proof made with another master secret
\* than the one its credential was signed for, and run ended with an exception
C22_Witness ==
  /\ proof_pc = "failed"
  /\ Has(verifier, F("job_application_proof"))
  /\ Received = verifier[F("authcrypted_job_application_proof")].body
  /\ Received = prover[F("job_application_proof")]
  /\ Issued = Delivered
  /\ ~verifier_verify_proof(Issued, Received)

\* the referents of the delivered request the prover does not self-attest
NotSelfAttested == {"attr3_referent", "attr4_referent", "attr5_referent", "predicate1_referent"}

====
